---- MODULE Spec2Model ----
(***************************************************************************)
(* State-machine model of the catalog / cart / ban / audit-log store of   *)
(* src/app.py and of its archive export and import.                        *)
(*                                                                         *)
(* Every HTTP handler is one atomic action (the handlers take no lock,    *)
(* so this is the sequential behaviour of the program).  Conventions:      *)
(*   - Python None is NoneId (0) where an id is expected and the string    *)
(*     "null" where a text is expected;                                    *)
(*   - a Python dict that keeps insertion order (one user's cart) is a     *)
(*     sequence of lines with pairwise distinct keys; the carts dict is a  *)
(*     function whose domain is the set of its keys;                       *)
(*   - a JSON document is [json |-> value]; json.dumps turns the int keys  *)
(*     of a dict into strings, so a dumped cart line is [key, qty] with a  *)
(*     string key while a cart line in memory is [product_id, qty];        *)
(*   - two references to one Python dict (a log payload that is the very   *)
(*     category or product object) are a log entry whose ref field names   *)
(*     the collection that still holds the object;                         *)
(*   - the "ts" field of a log entry, the "description" field of a        *)
(*     product and the texts of the checkout message are left out: no      *)
(*     handler reads them back;                                            *)
(*   - prices are integral, so float arithmetic is exact;                  *)
(*   - _save_json is taken to succeed (its failure path only logs).        *)
(***************************************************************************)
EXTENDS Integers, Sequences, FiniteSets, TLC

(***************************************************************************)
(* Bounds and program constants                                            *)
(***************************************************************************)
\* number of requests served in one run
MaxOps == 3

LOG_LIMIT == 200

NoneId == 0

\* None where a text is expected (JSON null)
NoneStr == "null"

Users == {1, 2}

PLACEHOLDER == "/static/img/placeholder.svg"

(***************************************************************************)
(* Generic helpers                                                         *)
(***************************************************************************)
Max2(a, b) == IF a >= b THEN a ELSE b

SeqToSet(s) == {s[i] : i \in 1..Len(s)}

RECURSIVE SumSeq(_)
SumSeq(s) == IF s = <<>> THEN 0 ELSE Head(s) + SumSeq(Tail(s))

\* str(n) and int(s) for the decimal strings the model uses
DecStr == <<"1", "2", "3", "4", "5", "6", "7", "8", "9">>

DecDigit(d) == IF d = 0 THEN "0" ELSE DecStr[d]

\* the integers that occur as dict keys: one digit, and the user id 42
IntKeys == (1..Len(DecStr)) \cup {42}

StrOfInt(n) == IF n < 10 THEN DecStr[n] ELSE DecStr[n \div 10] \o DecDigit(n % 10)

IsIntStr(s) == \E n \in IntKeys : StrOfInt(n) = s

IntOfStr(s) == CHOOSE n \in IntKeys : StrOfInt(n) = s

(***************************************************************************)
(* The file system: files maps the absolute path of every regular file to  *)
(* its content, dirs is the set of directories.  A path is the sequence of *)
(* its segments from "/".                                                  *)
(***************************************************************************)
\* the process's working directory
Cwd == <<"app">>

DATA_DIR == Cwd \o <<"data">>

IMAGES_DIR == DATA_DIR \o <<"images">>

THUMBS_DIR == DATA_DIR \o <<"thumbs">>

DocPath(name) == DATA_DIR \o <<name>>

IsPrefix(p, q) == Len(p) <= Len(q) /\ SubSeq(q, 1, Len(p)) = p

\* strictly below the data root
UnderData(p) == IsPrefix(DATA_DIR, p) /\ Len(p) > Len(DATA_DIR)

Parent(p) == SubSeq(p, 1, Len(p) - 1)

\* every proper ancestor directory of p
Ancestors(p) == {SubSeq(p, 1, k) : k \in 0..(Len(p) - 1)}

PutFile(f, path, data) ==
  [p \in DOMAIN f \cup {path} |-> IF p = path THEN data ELSE f[p]]

Json(v) == [json |-> v]

IsJson(c) == "json" \in DOMAIN c

Garbage == [raw |-> "garbage"]

Jpeg == [raw |-> "jpeg"]
(***************************************************************************)
(* Serialisation: what json.dumps writes for an aggregate and what the     *)
(* loaders make of a document                                              *)
(***************************************************************************)
\* a dict line as json.dumps writes it: an int key becomes a string
DumpLine(l) ==
  IF "product_id" \in DOMAIN l
  THEN [key |-> StrOfInt(l.product_id), qty |-> l.qty]
  ELSE l

DumpCart(cart) == [i \in 1..Len(cart) |-> DumpLine(cart[i])]

DumpCarts(c) ==
  [k \in {StrOfInt(u) : u \in DOMAIN c} |-> DumpCart(c[IntOfStr(k)])]

\* the payload of a checkout entry holds a cart dict
DumpPayload(e) ==
  IF e.kind = "checkout"
  THEN [contact |-> e.payload.contact, note |-> e.payload.note,
        items |-> DumpCart(e.payload.items)]
  ELSE e.payload

DumpEntry(e) ==
  [kind |-> e.kind, user_id |-> e.user_id, payload |-> DumpPayload(e)]

DumpLogs(l) == [i \in 1..Len(l) |-> DumpEntry(l[i])]

\* an entry read back from logs.json shares its payload with nothing
LoadEntry(d) ==
  [kind |-> d.kind, user_id |-> d.user_id, payload |-> d.payload, ref |-> "own"]

LoadLogs(doc) == [i \in 1..Len(doc) |-> LoadEntry(doc[i])]

NormalizeLine(l) == [product_id |-> IntOfStr(l.key), qty |-> l.qty]

NormalizeCart(lines) ==
  LET kept == SelectSeq(lines, LAMBDA l : IsIntStr(l.key))
  IN  [i \in 1..Len(kept) |-> NormalizeLine(kept[i])]

_normalize_carts(data) ==
  [u \in {IntOfStr(k) : k \in {j \in DOMAIN data : IsIntStr(j)}} |->
     NormalizeCart(data[StrOfInt(u)])]

_save_json(f, name, data) == PutFile(f, DocPath(name), Json(data))

\* the value read, and the files after the default was written back
_load_json(f, name, default) ==
  IF DocPath(name) \in DOMAIN f /\ IsJson(f[DocPath(name)])
  THEN [val |-> f[DocPath(name)].json, files |-> f]
  ELSE [val |-> default, files |-> _save_json(f, name, default)]

DefaultSettings == [mode |-> "samootsos"]

_load_all_data(f) ==
  LET c == _load_json(f, "categories.json", <<>>)
      p == _load_json(c.files, "products.json", <<>>)
      k == _load_json(p.files, "carts.json", <<>>)
      l == _load_json(k.files, "logs.json", <<>>)
      b == _load_json(l.files, "bans.json", <<>>)
      s == _load_json(b.files, "settings.json", DefaultSettings)
  IN  [categories |-> c.val, products |-> p.val,
       carts |-> _normalize_carts(k.val), logs |-> LoadLogs(l.val),
       bans |-> b.val, settings |-> s.val, files |-> s.files]
(***************************************************************************)
(* State                                                                   *)
(***************************************************************************)
VARIABLES
  categories,  \* list of [id, name, icon]
  products,    \* list of [id, title, price, category_id, image_url, thumb_url]
  carts,       \* user id -> list of [product_id, qty]
  logs,        \* list of [kind, user_id, payload, ref]
  bans,        \* list of [user_id, reason]
  settings,    \* [mode]
  files,       \* path -> content, every regular file
  dirs,        \* set of directories
  env,         \* [admin_chat_id, nick]: ADMIN_CHAT_ID and SAMOPIS_NICK
  download,    \* the archive the last export handed to the client
  lastOp,      \* the last request served
  resp,        \* its response
  sent,        \* what it did with the messenger: "none", "delivered", "failed"
  extracted,   \* paths the last import created or wrote, in order
  asked,       \* history: per cart line, the quantity it started from and
               \* the sum of max(1, qty) over the add calls accepted since
  nops,        \* number of requests served
  trace,       \* history: the requests of a scenario run and their responses
  threads      \* the requests in flight when handlers run in parallel:
               \* thread -> its position and its local variables

mem == <<categories, products, carts, logs, bans, settings>>

vars == <<categories, products, carts, logs, bans, settings, files, dirs, env,
          download, lastOp, resp, sent, extracted, asked, nops, trace, threads>>

(***************************************************************************)
(* The data roots a process may start on: an empty one, and one left by an *)
(* earlier run that imported a catalog, carts with lines for a product     *)
(* that is not in the catalog (7), and a ban                               *)
(***************************************************************************)
Url(s) == [url |-> s]

SeedCategories ==
  << [id |-> 1, name |-> "Shoes", icon |-> NoneStr],
     [id |-> 2, name |-> "Bags", icon |-> NoneStr] >>

SeedProducts ==
  << [id |-> 1, title |-> "X", price |-> 10, category_id |-> 1,
      image_url |-> Url(PLACEHOLDER), thumb_url |-> Url(PLACEHOLDER)],
     [id |-> 2, title |-> "Z", price |-> 25, category_id |-> 2,
      image_url |-> Url(PLACEHOLDER), thumb_url |-> Url(PLACEHOLDER)] >>

SeedCarts ==
  [k \in {"1", "2"} |->
     IF k = "1" THEN << [key |-> "1", qty |-> 2], [key |-> "7", qty |-> 1] >>
     ELSE << [key |-> "7", qty |-> 3] >>]

SeedBans == << [user_id |-> 3, reason |-> "spam"] >>

SeedLogs ==
  << [kind |-> "user_banned", user_id |-> 3, payload |-> [reason |-> "spam"]] >>

EmptyFiles == [p \in {} |-> Garbage]

SeedFiles ==
  [p \in {DocPath("categories.json"), DocPath("products.json"),
          DocPath("carts.json"), DocPath("bans.json"), DocPath("logs.json")} |->
     IF p = DocPath("categories.json") THEN Json(SeedCategories)
     ELSE IF p = DocPath("products.json") THEN Json(SeedProducts)
     ELSE IF p = DocPath("carts.json") THEN Json(SeedCarts)
     ELSE IF p = DocPath("bans.json") THEN Json(SeedBans)
     ELSE Json(SeedLogs)]

InitialRoots == {EmptyFiles, SeedFiles}

InitialDirs == {<<>>, Cwd, DATA_DIR, IMAGES_DIR, THUMBS_DIR}

Environments ==
  { [admin_chat_id |-> 99, nick |-> ""],
    [admin_chat_id |-> NoneId, nick |-> "seller"] }

\* what a client that never exported can upload: a file that is no zip archive
NotAZip == [label |-> "notzip", zip |-> FALSE, entries |-> <<>>]

\* the threads of the server: none has a request
Threads == {1, 2}

Idle == [pc |-> "idle"]

NoThreads == [t \in Threads |-> Idle]

\* asked for the carts just loaded
AskedFrom(c) ==
  [u \in DOMAIN c |->
     [i \in 1..Len(c[u]) |->
        [product_id |-> c[u][i].product_id, base |-> c[u][i].qty, sum |-> 0]]]

Init ==
  \E root \in InitialRoots, e \in Environments :
    LET d == _load_all_data(root)
    IN  /\ categories = d.categories
        /\ products = d.products
        /\ carts = d.carts
        /\ logs = d.logs
        /\ bans = d.bans
        /\ settings = d.settings
        /\ files = d.files
        /\ dirs = InitialDirs
        /\ env = e
        /\ download = NotAZip
        /\ lastOp = [op |-> "start"]
        /\ resp = [status |-> 0]
        /\ sent = "none"
        /\ extracted = <<>>
        /\ asked = AskedFrom(d.carts)
        /\ nops = 0
        /\ trace = <<>>
        /\ threads = NoThreads

(***************************************************************************)
(* EventLog and IdAllocator                                                *)
(***************************************************************************)
EmptyPayload == <<>>

\* mutant: logs.insert(0, entry)
_log_event_front(l, kind, user_id, payload, ref) ==
  LET entry == [kind |-> kind, user_id |-> user_id, payload |-> payload,
                ref |-> ref]
      inserted == <<entry>> \o l
  IN  IF Len(inserted) > LOG_LIMIT THEN Tail(inserted) ELSE inserted

\* the list after logs.append(entry) and the trim
_log_event(l, kind, user_id, payload, ref) ==
  LET entry == [kind |-> kind, user_id |-> user_id, payload |-> payload,
                ref |-> ref]
      appended == Append(l, entry)
  IN  IF Len(appended) > LOG_LIMIT THEN Tail(appended) ELSE appended

RECURSIVE MaxId(_)
MaxId(items) ==
  IF items = <<>> THEN 0 ELSE Max2(Head(items).id, MaxId(Tail(items)))

\* mutant: len(items) + 1
_next_id_len(items) == Len(items) + 1

_next_id(items) == MaxId(items) + 1

\* the documents written by a handler that changed the aggregates named
SaveLogs(f, l) == _save_json(f, "logs.json", DumpLogs(l))

Served == nops' = nops + 1

\* mutant: the refusal is written to the audit log
RejectLogged(op, status, error) ==
  /\ lastOp' = op
  /\ resp' = [status |-> status, ok |-> FALSE, error |-> error]
  /\ sent' = "none"
  /\ Served
  /\ logs' = _log_event(logs, "refused", NoneId, [error |-> error], "own")
  /\ UNCHANGED <<categories, products, carts, bans, settings, files, dirs, env,
                 download, extracted, asked>>

\* a request that fails before it touches anything
Reject(op, status, error) ==
  /\ lastOp' = op
  /\ resp' = [status |-> status, ok |-> FALSE, error |-> error]
  /\ sent' = "none"
  /\ Served
  /\ UNCHANGED <<mem, files, dirs, env, download, extracted, asked>>
(***************************************************************************)
(* Catalog                                                                 *)
(***************************************************************************)
CategoryNames == {"", "Hats"}

CategoryPatches == { [name |-> "Boots", icon |-> ""], [name |-> "", icon |-> "*"] }

CategoryIds == {1, 2}

\* icon or None
OrNone(text) == IF text = "" THEN NoneStr ELSE text

\* POST /api/categories
api_categories(name, icon) ==
  LET op == [op |-> "category_create"]
      new_cat == [id |-> _next_id(categories), name |-> name, icon |-> OrNone(icon)]
  IN  IF name = ""
      THEN Reject(op, 400, "name required")
      ELSE /\ categories' = Append(categories, new_cat)
           /\ logs' = _log_event(logs, "category_created", NoneId, new_cat, "categories")
           /\ files' = _save_json(SaveLogs(files, logs'), "categories.json", categories')
           /\ lastOp' = op
           /\ resp' = [status |-> 201, ok |-> TRUE, body |-> new_cat]
           /\ sent' = "none"
           /\ Served
           /\ UNCHANGED <<products, carts, bans, settings, dirs, env, download,
                          extracted, asked>>

\* next((c for c in categories if c["id"] == cat_id), None), as an index (0: None)
FindCategory(cat_id) ==
  IF \E i \in 1..Len(categories) : categories[i].id = cat_id
  THEN CHOOSE i \in 1..Len(categories) :
         /\ categories[i].id = cat_id
         /\ \A j \in 1..(i - 1) : categories[j].id # cat_id
  ELSE 0

\* the category dict after the PATCH assignments
PatchedCategory(c, name, icon) ==
  [id |-> c.id, name |-> IF name # "" THEN name ELSE c.name, icon |-> OrNone(icon)]

\* log entries whose payload is the category object see its new value
LogsAfterCategoryPatch(l, cat_id, patched) ==
  [i \in 1..Len(l) |->
     IF l[i].ref = "categories" /\ l[i].payload.id = cat_id
     THEN [l[i] EXCEPT !.payload = patched]
     ELSE l[i]]

\* PATCH /api/categories/<cat_id>
api_category_patch(cat_id, name, icon) ==
  LET op == [op |-> "category_patch", cat_id |-> cat_id]
      k == FindCategory(cat_id)
      patched == PatchedCategory(categories[k], name, icon)
  IN  IF k = 0
      THEN Reject(op, 404, "category not found")
      ELSE /\ categories' = [categories EXCEPT ![k] = patched]
           /\ logs' = _log_event(LogsAfterCategoryPatch(logs, cat_id, patched),
                                 "category_updated", NoneId, patched, "categories")
           /\ files' = _save_json(SaveLogs(files, logs'), "categories.json", categories')
           /\ lastOp' = op
           /\ resp' = [status |-> 200, ok |-> TRUE, body |-> patched]
           /\ sent' = "none"
           /\ Served
           /\ UNCHANGED <<products, carts, bans, settings, dirs, env, download,
                          extracted, asked>>

\* categories[:] = [c for c in categories if c["id"] != cat_id]
CategoriesAfterDelete(cats, cat_id) == SelectSeq(cats, LAMBDA c : c.id # cat_id)

\* for product in products: if product["category_id"] == cat_id: ... = None
Unreferenced(product, cat_id) ==
  IF product.category_id = cat_id
  THEN [product EXCEPT !.category_id = NoneId]
  ELSE product

\* mutant: the delete cascades to the products of the category
ProductsAfterDeleteCascade(prods, cat_id) ==
  SelectSeq(prods, LAMBDA x : x.category_id # cat_id)

ProductsAfterDelete(prods, cat_id) ==
  [i \in 1..Len(prods) |-> Unreferenced(prods[i], cat_id)]

\* a payload that is a removed category object is no longer reachable from
\* categories; a payload that is a product object sees the nulled reference
LogsAfterCategoryDelete(l, cat_id) ==
  [i \in 1..Len(l) |->
     IF l[i].ref = "categories" /\ l[i].payload.id = cat_id
     THEN [l[i] EXCEPT !.ref = "own"]
     ELSE IF l[i].ref = "products"
     THEN [l[i] EXCEPT !.payload = Unreferenced(l[i].payload, cat_id)]
     ELSE l[i]]

\* DELETE /api/categories/<cat_id>
api_category_delete(cat_id) ==
  LET op == [op |-> "category_delete", cat_id |-> cat_id]
  IN  IF FindCategory(cat_id) = 0
      THEN Reject(op, 404, "category not found")
      ELSE /\ categories' = CategoriesAfterDelete(categories, cat_id)
           /\ products' = ProductsAfterDelete(products, cat_id)
           /\ logs' = _log_event(LogsAfterCategoryDelete(logs, cat_id),
                                 "category_deleted", NoneId, [id |-> cat_id], "own")
           /\ files' = _save_json(
                         _save_json(SaveLogs(files, logs'), "categories.json", categories'),
                         "products.json", products')
           /\ lastOp' = op
           /\ resp' = [status |-> 200, ok |-> TRUE]
           /\ sent' = "none"
           /\ Served
           /\ UNCHANGED <<carts, bans, settings, dirs, env, download, extracted, asked>>

\* the request bodies of POST /api/products: one without a price
ProductBodies ==
  { [title |-> "Y", price |-> 20, category_id |-> 1, image_url |-> "http://img/y"],
    [title |-> "Y", category_id |-> 1, image_url |-> ""] }

FetchOutcomes == {"ok", "fail"}

ImageFile(product_id) == "product_" \o StrOfInt(product_id) \o ".jpg"

\* save_variant: the url of the saved file, None when the save failed
SavedUrl(folder, prefix, product_id, fetched) ==
  IF fetched /\ folder \in dirs
  THEN Url(prefix \o "/" \o ImageFile(product_id))
  ELSE Url(NoneStr)

\* _download_and_resize: only an http url can be fetched
_download_and_resize(image_url, product_id, fetch) ==
  LET fetched == fetch = "ok" /\ image_url # PLACEHOLDER
  IN  [main |-> SavedUrl(IMAGES_DIR, "/media/images", product_id, fetched),
       thumb |-> SavedUrl(THUMBS_DIR, "/media/thumbs", product_id, fetched)]

FilesAfterFetch(f, product_id, paths) ==
  LET f1 == IF paths.main # Url(NoneStr)
            THEN PutFile(f, IMAGES_DIR \o <<ImageFile(product_id)>>, Jpeg) ELSE f
  IN  IF paths.thumb # Url(NoneStr)
      THEN PutFile(f1, THUMBS_DIR \o <<ImageFile(product_id)>>, Jpeg) ELSE f1

\* POST /api/products
api_products(body, fetch) ==
  LET op == [op |-> "product_create"]
      id == _next_id(products)
      image_url == IF body.image_url = "" THEN PLACEHOLDER ELSE body.image_url
      paths == _download_and_resize(image_url, id, fetch)
      main_url == IF paths.main # Url(NoneStr) THEN paths.main ELSE Url(image_url)
      thumb_url == IF paths.thumb # Url(NoneStr) THEN paths.thumb ELSE main_url
      new_product == [id |-> id, title |-> body.title, price |-> body.price,
                      category_id |-> body.category_id,
                      image_url |-> main_url, thumb_url |-> thumb_url]
  IN  IF body.title = "" \/ "price" \notin DOMAIN body \/ "category_id" \notin DOMAIN body
      THEN Reject(op, 400, "title, price, category_id required")
      ELSE /\ products' = Append(products, new_product)
           /\ logs' = _log_event(logs, "product_created", NoneId, new_product, "products")
           /\ files' = _save_json(SaveLogs(FilesAfterFetch(files, id, paths), logs'),
                                  "products.json", products')
           /\ lastOp' = op
           /\ resp' = [status |-> 201, ok |-> TRUE, body |-> new_product]
           /\ sent' = "none"
           /\ Served
           /\ UNCHANGED <<categories, carts, bans, settings, dirs, env, download,
                          extracted, asked>>
(***************************************************************************)
(* BanGuard and CartEngine                                                 *)
(***************************************************************************)
\* user ids a request may carry; 0 is a missing or zero user_id
UserArgs == Users

\* the same, and a body without user_id
CartUserArgs == UserArgs \cup {NoneId}

ProductArgs == {1, 7}

QtyArgs == {-1, 0, 2}

\* mutant: only the first ban is looked at
_is_banned_first(user_id) ==
  user_id # NoneId /\ bans # <<>> /\ bans[1].user_id = user_id

_is_banned(user_id) ==
  user_id # NoneId /\ \E i \in 1..Len(bans) : bans[i].user_id = user_id

\* the first product with that id, as an index (0: None)
_get_product(product_id) ==
  IF \E i \in 1..Len(products) : products[i].id = product_id
  THEN CHOOSE i \in 1..Len(products) :
         /\ products[i].id = product_id
         /\ \A j \in 1..(i - 1) : products[j].id # product_id
  ELSE 0

\* carts.get(user_id, {})
CartOf(c, user_id) == IF user_id \in DOMAIN c THEN c[user_id] ELSE <<>>

\* cart.get(product_id, 0)
QtyIn(cart, product_id) ==
  IF \E i \in 1..Len(cart) : cart[i].product_id = product_id
  THEN (CHOOSE l \in SeqToSet(cart) : l.product_id = product_id).qty
  ELSE 0

\* int(body.get("qty") or 1)
ParsedQty(raw) == IF raw = 0 THEN 1 ELSE raw

\* mutant: max(0, qty)
ClampedQtyFromZero(qty) == Max2(0, qty)

\* max(1, qty)
ClampedQty(qty) == Max2(1, qty)

\* cart[product_id] = qty: in place for a key the dict holds, else at the end
SetLine(cart, product_id, qty) ==
  IF \E i \in 1..Len(cart) : cart[i].product_id = product_id
  THEN [i \in 1..Len(cart) |->
          IF cart[i].product_id = product_id
          THEN [product_id |-> product_id, qty |-> qty] ELSE cart[i]]
  ELSE Append(cart, [product_id |-> product_id, qty |-> qty])

\* carts[user_id] = cart
SetCart(c, user_id, cart) ==
  [u \in DOMAIN c \cup {user_id} |-> IF u = user_id THEN cart ELSE c[u]]

CartAfterAdd(cart, product_id, qty) ==
  SetLine(cart, product_id, QtyIn(cart, product_id) + ClampedQty(qty))

\* history: the quantities asked for, clamped as the contract says
AskedAfterAdd(a, user_id, product_id, raw) ==
  LET want == IF raw < 1 THEN 1 ELSE raw
      mine == CartOf(a, user_id)
      line == IF \E i \in 1..Len(mine) : mine[i].product_id = product_id
              THEN [i \in 1..Len(mine) |->
                      IF mine[i].product_id = product_id
                      THEN [mine[i] EXCEPT !.sum = @ + want] ELSE mine[i]]
              ELSE Append(mine, [product_id |-> product_id, base |-> 0, sum |-> want])
  IN  SetCart(a, user_id, line)

SaveCarts(f, c) == _save_json(f, "carts.json", DumpCarts(c))

\* POST /api/cart/add
api_cart_add(user_id, product_id, raw) ==
  LET op == [op |-> "cart_add", user_id |-> user_id, product_id |-> product_id]
      qty == ParsedQty(raw)
  IN  IF user_id = NoneId \/ product_id = NoneId
      THEN Reject(op, 400, "user_id and product_id required")
      ELSE IF _is_banned(user_id)
      THEN Reject(op, 403, "banned")
      ELSE IF _get_product(product_id) = 0
      THEN Reject(op, 404, "product not found")
      ELSE /\ carts' = SetCart(carts, user_id,
                               CartAfterAdd(CartOf(carts, user_id), product_id, qty))
           /\ logs' = _log_event(logs, "cart_add", user_id,
                                 [product_id |-> product_id, qty |-> qty], "own")
           /\ files' = SaveCarts(SaveLogs(files, logs'), carts')
           /\ asked' = AskedAfterAdd(asked, user_id, product_id, raw)
           /\ lastOp' = op
           /\ resp' = [status |-> 200, ok |-> TRUE]
           /\ sent' = "none"
           /\ Served
           /\ UNCHANGED <<categories, products, bans, settings, dirs, env, download,
                          extracted>>

\* mutant: the subtotal forgets the quantity
ItemUnitPrice(line) ==
  LET product == products[_get_product(line.product_id)]
  IN  [product |-> product, qty |-> line.qty, subtotal |-> product.price]

\* the lines of a cart whose product exists, priced
Item(line) ==
  LET product == products[_get_product(line.product_id)]
  IN  [product |-> product, qty |-> line.qty, subtotal |-> product.price * line.qty]

CartItems(cart) ==
  LET alive == SelectSeq(cart, LAMBDA l : _get_product(l.product_id) # 0)
  IN  [i \in 1..Len(alive) |-> Item(alive[i])]

\* total += subtotal, line after line
CartTotal(items) == SumSeq([i \in 1..Len(items) |-> items[i].subtotal])

\* GET /api/cart/<user_id>
api_cart_get(user_id) ==
  LET items == CartItems(CartOf(carts, user_id))
  IN  /\ lastOp' = [op |-> "cart_get", user_id |-> user_id]
      /\ resp' = [status |-> 200, ok |-> TRUE,
                  body |-> [items |-> items, total |-> CartTotal(items)]]
      /\ sent' = "none"
      /\ Served
      /\ UNCHANGED <<mem, files, dirs, env, download, extracted, asked>>

\* mutant: the assignment is missing
KeptCarts(c, user_id) == c

\* carts[int(user_id)] = {}
ClearedCarts(c, user_id) == SetCart(c, user_id, <<>>)

\* POST /api/cart/clear
api_cart_clear(user_id) ==
  LET op == [op |-> "cart_clear", user_id |-> user_id]
  IN  IF user_id = NoneId
      THEN Reject(op, 400, "user_id required")
      ELSE IF _is_banned(user_id)
      THEN Reject(op, 403, "banned")
      ELSE /\ carts' = ClearedCarts(carts, user_id)
           /\ logs' = _log_event(logs, "cart_clear", user_id, EmptyPayload, "own")
           /\ files' = SaveCarts(SaveLogs(files, logs'), carts')
           /\ asked' = SetCart(asked, user_id, <<>>)
           /\ lastOp' = op
           /\ resp' = [status |-> 200, ok |-> TRUE]
           /\ sent' = "none"
           /\ Served
           /\ UNCHANGED <<categories, products, bans, settings, dirs, env, download,
                          extracted>>

\* what the messenger does with one send
Deliveries == {"bot", "http", "down"}

\* notify_admin: the bot client, then the plain HTTP fallback
notify_admin(delivery) ==
  IF env.admin_chat_id = NoneId THEN FALSE
  ELSE IF delivery = "bot" THEN TRUE
  ELSE delivery = "http"

\* whether checkout calls the messenger at all
NotifiesAdmin(mode) == mode # "samopis" /\ env.admin_chat_id # NoneId

\* mutant: the nick alone decides, whatever the mode
RedirectAnyMode(mode) ==
  IF env.nick # ""
  THEN [redirect |-> "https://t.me/" \o env.nick]
  ELSE [redirect |-> NoneStr]

\* the redirect of the response: set in samopis mode when a nick is configured
Redirect(mode) ==
  IF mode = "samopis" /\ env.nick # ""
  THEN [redirect |-> "https://t.me/" \o env.nick]
  ELSE [redirect |-> NoneStr]

\* mutant: if not cart
NothingToOrderRaw(cart) == cart = <<>>

\* if not items
NothingToOrder(cart) == CartItems(cart) = <<>>

\* mutant: the payload holds the lines that were totalled
CheckoutPayloadLive(cart) ==
  [contact |-> "tel", note |-> "",
   items |-> SelectSeq(cart, LAMBDA l : _get_product(l.product_id) # 0)]

\* payload={"contact": contact, "note": note, "items": cart}: the cart dict
\* itself, which line 568 replaces in carts and does not empty
CheckoutPayload(cart) == [contact |-> "tel", note |-> "", items |-> cart]

\* POST /api/cart/checkout
api_cart_checkout(user_id, delivery) ==
  LET op == [op |-> "checkout", user_id |-> user_id]
      cart == CartOf(carts, user_id)
      mode == settings.mode
  IN  IF user_id = NoneId
      THEN Reject(op, 400, "user_id required")
      ELSE IF _is_banned(user_id)
      THEN Reject(op, 403, "banned")
      ELSE IF NothingToOrder(cart)
      THEN Reject(op, 400, "cart_empty")
      ELSE /\ logs' = _log_event(logs, "checkout", user_id, CheckoutPayload(cart), "own")
           /\ sent' = IF ~NotifiesAdmin(mode) THEN "none"
                      ELSE IF notify_admin(delivery) THEN "delivered" ELSE "failed"
           /\ carts' = ClearedCarts(carts, user_id)
           /\ files' = SaveCarts(SaveLogs(files, logs'), carts')
           /\ asked' = SetCart(asked, user_id, <<>>)
           /\ lastOp' = op
           /\ resp' = [status |-> 200, ok |-> TRUE, body |-> Redirect(mode)]
           /\ Served
           /\ UNCHANGED <<categories, products, bans, settings, dirs, env, download,
                          extracted>>

BanReasons == {"spam"}

\* POST /api/admin/bans
api_admin_bans(user_id, reason) ==
  LET op == [op |-> "ban", user_id |-> user_id]
      ban == [user_id |-> user_id, reason |-> reason]
  IN  IF \E i \in 1..Len(bans) : bans[i].user_id = user_id
      THEN Reject(op, 400, "already banned")
      ELSE /\ bans' = Append(bans, ban)
           /\ logs' = _log_event(logs, "user_banned", user_id, [reason |-> reason], "own")
           /\ files' = _save_json(SaveLogs(files, logs'), "bans.json", bans')
           /\ lastOp' = op
           /\ resp' = [status |-> 201, ok |-> TRUE, body |-> ban]
           /\ sent' = "none"
           /\ Served
           /\ UNCHANGED <<categories, products, carts, settings, dirs, env, download,
                          extracted, asked>>

\* mutant: bans.clear()
BansAfterDeleteAll(b, user_id) == <<>>

\* bans[:] = [b for b in bans if b["user_id"] != user_id]
BansAfterDelete(b, user_id) == SelectSeq(b, LAMBDA x : x.user_id # user_id)

\* DELETE /api/admin/bans/<user_id>
api_admin_bans_delete(user_id) ==
  LET op == [op |-> "unban", user_id |-> user_id]
  IN  IF Len(BansAfterDelete(bans, user_id)) = Len(bans)
      THEN Reject(op, 404, "not found")
      ELSE /\ bans' = BansAfterDelete(bans, user_id)
           /\ logs' = _log_event(logs, "user_unbanned", user_id, EmptyPayload, "own")
           /\ files' = _save_json(SaveLogs(files, logs'), "bans.json", bans')
           /\ lastOp' = op
           /\ resp' = [status |-> 200, ok |-> TRUE]
           /\ sent' = "none"
           /\ Served
           /\ UNCHANGED <<categories, products, carts, settings, dirs, env, download,
                          extracted, asked>>

ModeArgs == {"samootsos", "samopis", "other"}

\* POST /api/admin/mode
api_admin_mode(mode) ==
  LET op == [op |-> "mode", mode |-> mode]
  IN  IF mode \notin {"samootsos", "samopis"}
      THEN Reject(op, 400, "invalid_mode")
      ELSE /\ settings' = [settings EXCEPT !.mode = mode]
           /\ files' = _save_json(files, "settings.json", settings')
           /\ lastOp' = op
           /\ resp' = [status |-> 200, ok |-> TRUE, body |-> [mode |-> mode]]
           /\ sent' = "none"
           /\ Served
           /\ UNCHANGED <<categories, products, carts, logs, bans, dirs, env, download,
                          extracted, asked>>
(***************************************************************************)
(* ArchiveCodec                                                            *)
(***************************************************************************)
\* an entry name: "/"-separated parts, a leading "/" (abs), a trailing "/" (dir)
Rel(parts) == [abs |-> FALSE, parts |-> parts, dir |-> FALSE]

Abs(parts) == [abs |-> TRUE, parts |-> parts, dir |-> FALSE]

Dir(name) == [name EXCEPT !.dir = TRUE]

RECURSIVE SetToSeq(_)
SetToSeq(S) ==
  IF S = {} THEN <<>>
  ELSE LET x == CHOOSE y \in S : TRUE IN <<x>> \o SetToSeq(S \ {x})

\* zf.write(path, arcname=path.relative_to(DATA_DIR)) for every regular file
ArchiveEntry(f, path) ==
  [name |-> Rel(SubSeq(path, Len(DATA_DIR) + 1, Len(path))), data |-> f[path]]

_create_data_zip(f) ==
  LET paths == SetToSeq({p \in DOMAIN f : UnderData(p)})
  IN  [label |-> "download", zip |-> TRUE,
       entries |-> [i \in 1..Len(paths) |-> ArchiveEntry(f, paths[i])]]

\* GET /api/admin/data/download
api_admin_data_download ==
  /\ download' = _create_data_zip(files)
  /\ lastOp' = [op |-> "export"]
  /\ resp' = [status |-> 200, ok |-> TRUE]
  /\ sent' = "none"
  /\ Served
  /\ UNCHANGED <<mem, files, dirs, env, extracted, asked>>

\* not name, or a name of slashes only
SkippedName(name) == name.parts = <<>>

\* mutant: only name.startswith("/")
UnsafeNameAbsolute(name) == name.abs

\* name.startswith("/") or ".." in Path(name).parts
UnsafeName(name) == name.abs \/ ".." \in SeqToSet(name.parts)

RECURSIVE Normalized(_, _)
Normalized(base, parts) ==
  IF parts = <<>> THEN base
  ELSE IF Head(parts) = ".."
       THEN Normalized(IF base = <<>> THEN base ELSE Parent(base), Tail(parts))
       ELSE Normalized(Append(base, Head(parts)), Tail(parts))

\* (DATA_DIR / name).resolve(); the model has no symbolic links
Resolved(name) == Normalized(IF name.abs THEN <<>> ELSE DATA_DIR, name.parts)

\* the proper string prefixes among the path segments the model uses
ProperPrefixes == { <<"data", "data2">> }

SegStartsWith(seg, prefix) == seg = prefix \/ <<prefix, seg>> \in ProperPrefixes

\* str(dest_path).startswith(str(DATA_DIR.resolve())): a test on the text
StrStartsWith(dest, root) ==
  /\ Len(dest) >= Len(root)
  /\ SubSeq(dest, 1, Len(root) - 1) = SubSeq(root, 1, Len(root) - 1)
  /\ SegStartsWith(dest[Len(root)], root[Len(root)])

ExtractFailed(f, d, w, why) ==
  [ok |-> FALSE, files |-> f, dirs |-> d, written |-> w, why |-> why]

\* _safe_extract: the members in order, until one raises
RECURSIVE _safe_extract(_, _, _, _)
_safe_extract(members, f, d, w) ==
  IF members = <<>>
  THEN [ok |-> TRUE, files |-> f, dirs |-> d, written |-> w, why |-> "none"]
  ELSE
    LET member == Head(members)
        name == member.name
        dest == Resolved(name)
        made == d \cup Ancestors(dest)
    IN  IF SkippedName(name) THEN _safe_extract(Tail(members), f, d, w)
        ELSE IF UnsafeName(name) THEN ExtractFailed(f, d, w, "unsafe path in archive")
        ELSE IF ~StrStartsWith(dest, DATA_DIR)
        THEN ExtractFailed(f, d, w, "unsafe path in archive")
        ELSE IF Ancestors(dest) \cap DOMAIN f # {}
        THEN ExtractFailed(f, d, w, "not a directory")
        ELSE IF name.dir
        THEN IF dest \in DOMAIN f
             THEN ExtractFailed(f, made, w, "file exists")
             ELSE _safe_extract(Tail(members), f, made \cup {dest}, Append(w, dest))
        ELSE IF dest \in made
        THEN ExtractFailed(f, made, w, "is a directory")
        ELSE _safe_extract(Tail(members), PutFile(f, dest, member.data), made,
                           Append(w, dest))

\* for child in DATA_DIR.iterdir(): unlink or rmtree
WipedFiles(f) == [p \in {q \in DOMAIN f : ~UnderData(q)} |-> f[p]]

WipedDirs(d) == {p \in d : ~UnderData(p)}

\* the uploads a client may send: a file that is no archive, an archive
\* with an entry of empty name, a directory, a nested file and a logs document
\* of LOG_LIMIT + 1 entries, and archives whose second entry has a name the
\* path rules forbid
BigLogs ==
  [i \in 1..(LOG_LIMIT + 1) |-> [kind |-> "seed", user_id |-> NoneId, payload |-> [n |-> i]]]

BigLogArchive ==
  [label |-> "biglogs", zip |-> TRUE,
   entries |-> << [name |-> Rel(<<>>), data |-> Garbage],
                  [name |-> Dir(Rel(<<"extra">>)), data |-> Garbage],
                  [name |-> Rel(<<"extra", "note">>), data |-> Garbage],
                  [name |-> Rel(<<"logs.json">>), data |-> Json(BigLogs)] >>]

\* "/etc/passwd" and "../data2/x"
UnsafeNames == { Abs(<<"etc", "passwd">>), Rel(<<"..", "data2", "x">>) }

UnsafeArchive(name) ==
  [label |-> "unsafe", zip |-> TRUE,
   entries |-> << [name |-> Rel(<<"products.json">>), data |-> Json(SeedProducts)],
                  [name |-> name, data |-> Garbage] >>]

\* an archive whose bans document holds two bans of one user
DoubleBans ==
  << [user_id |-> 2, reason |-> "spam"], [user_id |-> 2, reason |-> "fraud"] >>

DoubleBanArchive ==
  [label |-> "doubleban", zip |-> TRUE,
   entries |-> << [name |-> Rel(<<"bans.json">>), data |-> Json(DoubleBans)] >>]

Uploads ==
  {NotAZip, BigLogArchive, DoubleBanArchive}
    \cup {UnsafeArchive(n) : n \in UnsafeNames}

\* POST /api/admin/data/upload
api_admin_data_upload(file) ==
  LET op == [op |-> "import", label |-> file.label,
             names |-> [i \in 1..Len(file.entries) |-> file.entries[i].name]]
      x == IF file.zip
           THEN _safe_extract(file.entries, WipedFiles(files), WipedDirs(dirs), <<>>)
           ELSE ExtractFailed(WipedFiles(files), WipedDirs(dirs), <<>>, "not a zip file")
      d == _load_all_data(x.files)
  IN  /\ lastOp' = op
      /\ extracted' = x.written
      /\ sent' = "none"
      /\ Served
      /\ UNCHANGED <<env, download>>
      /\ IF ~x.ok
         THEN /\ files' = x.files
              /\ dirs' = x.dirs
              /\ resp' = [status |-> 400, ok |-> FALSE, error |-> "extract_failed"]
              /\ UNCHANGED <<mem, asked>>
         ELSE /\ dirs' = x.dirs \cup {IMAGES_DIR, THUMBS_DIR}
              /\ files' = d.files
              /\ categories' = d.categories
              /\ products' = d.products
              /\ carts' = d.carts
              /\ logs' = d.logs
              /\ bans' = d.bans
              /\ settings' = d.settings
              /\ asked' = AskedFrom(d.carts)
              /\ resp' = [status |-> 200, ok |-> TRUE]

(***************************************************************************)
(* The program                                                             *)
(***************************************************************************)
CategoryCreate ==
  /\ nops < MaxOps
  /\ UNCHANGED <<trace, threads>>
  /\ \E name \in CategoryNames : api_categories(name, "")

CategoryPatch ==
  /\ nops < MaxOps
  /\ UNCHANGED <<trace, threads>>
  /\ \E cat_id \in CategoryIds, b \in CategoryPatches :
       api_category_patch(cat_id, b.name, b.icon)

CategoryDelete ==
  /\ nops < MaxOps
  /\ UNCHANGED <<trace, threads>>
  /\ \E cat_id \in CategoryIds : api_category_delete(cat_id)

ProductCreate ==
  /\ nops < MaxOps
  /\ UNCHANGED <<trace, threads>>
  /\ \E body \in ProductBodies, fetch \in FetchOutcomes : api_products(body, fetch)

CartAdd ==
  /\ nops < MaxOps
  /\ UNCHANGED <<trace, threads>>
  /\ \E u \in CartUserArgs, p \in ProductArgs, q \in QtyArgs : api_cart_add(u, p, q)

CartGet ==
  /\ nops < MaxOps
  /\ UNCHANGED <<trace, threads>>
  /\ \E u \in UserArgs : api_cart_get(u)

CartClear ==
  /\ nops < MaxOps
  /\ UNCHANGED <<trace, threads>>
  /\ \E u \in CartUserArgs : api_cart_clear(u)

Checkout ==
  /\ nops < MaxOps
  /\ UNCHANGED <<trace, threads>>
  /\ \E u \in UserArgs, delivery \in Deliveries : api_cart_checkout(u, delivery)

Ban ==
  /\ nops < MaxOps
  /\ UNCHANGED <<trace, threads>>
  /\ \E u \in UserArgs, reason \in BanReasons : api_admin_bans(u, reason)

Unban ==
  /\ nops < MaxOps
  /\ UNCHANGED <<trace, threads>>
  /\ \E u \in UserArgs : api_admin_bans_delete(u)

SetMode ==
  /\ nops < MaxOps
  /\ UNCHANGED <<trace, threads>>
  /\ \E mode \in ModeArgs : api_admin_mode(mode)

Export ==
  /\ nops < MaxOps
  /\ UNCHANGED <<trace, threads>>
  /\ api_admin_data_download

Import ==
  /\ nops < MaxOps
  /\ UNCHANGED <<trace, threads>>
  /\ \E file \in Uploads \cup {download} : api_admin_data_upload(file)

Next ==
  \/ CategoryCreate
  \/ CategoryPatch
  \/ CategoryDelete
  \/ ProductCreate
  \/ CartAdd
  \/ CartGet
  \/ CartClear
  \/ Checkout
  \/ Ban
  \/ Unban
  \/ SetMode
  \/ Export
  \/ Import

Spec == Init /\ [][Next]_vars
(***************************************************************************)
(* Properties                                                              *)
(***************************************************************************)
\* a request was served in this step
Step == nops' = nops + 1

\* the user has a ban
Banned(b, user_id) == \E x \in SeqToSet(b) : x.user_id = user_id

\* the products a cart line may resolve to
ProductsWithId(product_id) == {x \in SeqToSet(products) : x.id = product_id}

\* the lines of a cart whose product is in the catalog
LiveLines(cart) == {l \in SeqToSet(cart) : ProductsWithId(l.product_id) # {}}

\* C1: for every line of every cart, the stored quantity is the quantity the
\* line started from (0 for a line created by add) plus the sum of
\* max(1, requested qty) over the add calls accepted for that user and
\* product since the cart was last cleared, checked out or loaded.
C1_QuantityIsSumOfClampedRequests ==
  /\ DOMAIN asked = DOMAIN carts
  /\ \A u \in DOMAIN carts :
       /\ Len(asked[u]) = Len(carts[u])
       /\ \A i \in 1..Len(carts[u]) :
            /\ carts[u][i].product_id = asked[u][i].product_id
            /\ carts[u][i].qty = asked[u][i].base + asked[u][i].sum

\* three accepted add calls of one user for one product, asking for 2, 0 and
\* -1 in some order on a line that did not exist, leave the quantity 4
C1_Witness ==
  /\ Len(logs) >= 3
  /\ LET n == Len(logs)
         last == {logs[n - 2], logs[n - 1], logs[n]}
     IN  /\ \A e \in last : e.kind = "cart_add" /\ e.user_id = 2
                            /\ e.payload.product_id = 1
         /\ {e.payload.qty : e \in last} = {2, 1, -1}
  /\ \E l \in SeqToSet(asked[2]) : l.product_id = 1 /\ l.base = 0 /\ l.sum = 4
  /\ QtyIn(carts[2], 1) = 4

\* what get must answer for the cart of a user in the current state
GetAnswerRight(user_id, body) ==
  LET cart == CartOf(carts, user_id)
      items == SeqToSet(body.items)
  IN  /\ Len(body.items) = Cardinality(LiveLines(cart))
      /\ \A l \in LiveLines(cart) :
           \E it \in items : it.product.id = l.product_id /\ it.qty = l.qty
      /\ \A it \in items :
           /\ it.product \in SeqToSet(products)
           /\ \E l \in SeqToSet(cart) :
                l.product_id = it.product.id /\ l.qty = it.qty
           /\ it.subtotal = it.product.price * it.qty
      /\ body.total = SumSeq([i \in 1..Len(body.items) |-> body.items[i].subtotal])

\* C2: get answers one item per cart line whose product exists and none for
\* a stale line, each subtotal is price * qty and the total is the sum of
\* the subtotals; get changes no aggregate and no document.
C2_GetTotalsSurvivingLines ==
  [][(Step /\ lastOp'.op = "cart_get")
       => /\ UNCHANGED <<mem, files, dirs>>
          /\ resp'.status = 200
          /\ GetAnswerRight(lastOp'.user_id, resp'.body)]_vars

\* get on a cart with a live line (product 1, qty 2, price 10) and a stale
\* one (product 7): one item, total 20, the stale line still stored
C2_Witness ==
  /\ lastOp.op = "cart_get"
  /\ lastOp.user_id = 1
  /\ \E l \in SeqToSet(CartOf(carts, 1)) : l.product_id = 7
  /\ Len(resp.body.items) = 1
  /\ resp.body.items[1].qty = 2
  /\ resp.body.total = 20

\* C3: a checkout by a user who has no ban and whose cart has a line for an
\* existing product reports success and leaves that user's cart empty,
\* whatever the mode and whatever the messenger did.
C3_CheckoutEmptiesCart ==
  [][(/\ Step
      /\ lastOp'.op = "checkout"
      /\ ~Banned(bans, lastOp'.user_id)
      /\ LiveLines(CartOf(carts, lastOp'.user_id)) # {})
       => /\ resp'.status = 200
          /\ resp'.ok
          /\ lastOp'.user_id \in DOMAIN carts'
          /\ carts'[lastOp'.user_id] = <<>>]_vars

\* a successful checkout whose delivery to the admin chat failed
C3_Witness ==
  /\ lastOp.op = "checkout"
  /\ resp.ok
  /\ sent = "failed"
  /\ carts[lastOp.user_id] = <<>>
  /\ logs[Len(logs)].kind = "checkout"
  /\ logs[Len(logs)].payload.items # <<>>

\* the precondition of C4: a checkout by a user without a ban whose cart is
\* absent, empty or holds only lines of products that do not exist
EmptyCheckout ==
  /\ Step
  /\ lastOp'.op = "checkout"
  /\ ~Banned(bans, lastOp'.user_id)
  /\ LiveLines(CartOf(carts, lastOp'.user_id)) = {}

\* C4 as amended: such a checkout fails with cart_empty, changes no cart (a
\* fully stale cart keeps its stale lines, so that get shows it empty), adds
\* no log entry and sends nothing.
C4_EmptyCheckoutChangesNothing ==
  [][EmptyCheckout
       => /\ resp'.status = 400
          /\ resp'.error = "cart_empty"
          /\ carts' = carts
          /\ logs' = logs
          /\ sent' = "none"
          /\ CartItems(CartOf(carts', lastOp'.user_id)) = <<>>]_vars

\* C4 as claimed: moreover the stored cart is empty afterwards
C4_EmptyCheckoutLeavesCartEmpty ==
  [][EmptyCheckout
       => /\ resp'.status = 400
          /\ resp'.error = "cart_empty"
          /\ carts' = carts
          /\ logs' = logs
          /\ sent' = "none"
          /\ CartOf(carts', lastOp'.user_id) = <<>>]_vars

\* a rejected checkout of a cart whose only line is stale
C4_Witness ==
  /\ lastOp.op = "checkout"
  /\ resp.status = 400
  /\ resp.error = "cart_empty"
  /\ CartOf(carts, lastOp.user_id) # <<>>

C6_CategoryDeleteKeepsProducts ==
  [][(/\ Step
      /\ lastOp'.op = "category_delete"
      /\ \E c \in SeqToSet(categories) : c.id = lastOp'.cat_id)
       => /\ resp'.ok
          /\ SeqToSet(categories')
               = {c \in SeqToSet(categories) : c.id # lastOp'.cat_id}
          /\ Len(categories') = Len(categories) - 1
          /\ Len(products') = Len(products)
          /\ \A i \in 1..Len(products) :
               /\ products'[i] = [products[i] EXCEPT !.category_id = products'[i].category_id]
               /\ products'[i].category_id =
                    IF products[i].category_id = lastOp'.cat_id
                    THEN NoneId ELSE products[i].category_id]_vars

\* category 1 deleted: product 1 lost its reference, product 2 kept its own
C6_Witness ==
  /\ lastOp.op = "category_delete"
  /\ lastOp.cat_id = 1
  /\ resp.ok
  /\ Len(products) >= 2
  /\ products[1].category_id = NoneId
  /\ products[2].category_id = 2
DocNames ==
  {"categories.json", "products.json", "carts.json", "logs.json", "bans.json",
   "settings.json"}

Absent == [raw |-> "absent"]

\* the durable documents
DocsOf(f) ==
  [n \in DocNames |-> IF DocPath(n) \in DOMAIN f THEN f[DocPath(n)] ELSE Absent]

\* the serialised content of the aggregates in memory
Serialized ==
  [categories |-> categories, products |-> products, carts |-> DumpCarts(carts),
   logs |-> DumpLogs(logs), bans |-> bans, settings |-> settings]

\* C7: an import of the archive that the export just before it produced
\* succeeds and leaves every document and the serialised content of every
\* aggregate as they were.
C7_ExportImportRoundTrip ==
  [][(/\ Step
      /\ lastOp.op = "export"
      /\ lastOp'.op = "import"
      /\ lastOp'.label = "download")
       => /\ resp'.ok
          /\ DocsOf(files') = DocsOf(files)
          /\ Serialized' = Serialized]_vars

\* an entry name that the path rules forbid: absolute, with a parent
\* segment, or resolving to a place that is not inside the data root
Forbidden(name) ==
  \/ name.abs
  \/ \E i \in 1..Len(name.parts) : name.parts[i] = ".."
  \/ ~IsPrefix(DATA_DIR, Resolved(name))

ForbiddenNames(names) == {names[i] : i \in {j \in 1..Len(names) : Forbidden(names[j])}}

\* C8: every regular file and every directory made by an import is inside
\* the data root, and nothing is created or written at the destination of
\* an entry whose name the path rules forbid.
C8_NothingOutsideDataRoot ==
  /\ \A p \in DOMAIN files : UnderData(p)
  /\ \A p \in dirs \ InitialDirs : UnderData(p)
  /\ \A p \in SeqToSet(extracted) : UnderData(p)
  /\ lastOp.op = "import" =>
       \A n \in ForbiddenNames(lastOp.names) :
         /\ Resolved(n) \notin SeqToSet(extracted)
         /\ Resolved(n) \notin DOMAIN files
         /\ Resolved(n) \notin dirs \ InitialDirs

\* an import of an archive with the entry "../data2/x" was refused
C8_Witness ==
  /\ lastOp.op = "import"
  /\ Rel(<<"..", "data2", "x">>) \in SeqToSet(lastOp.names)
  /\ resp.status = 400
  /\ <<"app", "data2", "x">> \notin DOMAIN files

\* C9: an import of an archive with a forbidden entry name fails and writes
\* no entry of the archive into the data root.
C9_RefusedImportWritesNothing ==
  (lastOp.op = "import" /\ ForbiddenNames(lastOp.names) # {})
    => /\ resp.status = 400
       /\ extracted = <<>>

\* C10: the log never holds more than LOG_LIMIT entries.
C10_LogWithinLimit == Len(logs) <= LOG_LIMIT

\* C12: no two bans in the list are of one user; a ban request for a user
\* who has a ban is refused and leaves the ban list and the log as they
\* were; a ban request for a user without a ban appends exactly one ban.
C12_OneBanPerUser ==
  /\ [](\A i, j \in 1..Len(bans) : bans[i].user_id = bans[j].user_id => i = j)
  /\ [][(Step /\ lastOp'.op = "ban")
         => IF Banned(bans, lastOp'.user_id)
            THEN /\ ~resp'.ok
                 /\ resp'.error = "already banned"
                 /\ bans' = bans
                 /\ logs' = logs
            ELSE /\ resp'.ok
                 /\ Len(bans') = Len(bans) + 1
                 /\ SubSeq(bans', 1, Len(bans)) = bans
                 /\ bans'[Len(bans')].user_id = lastOp'.user_id]_vars

\* C13: an unban request for a user without a ban answers 404 and leaves
\* the ban list and the log as they were; for a user with a ban it succeeds,
\* removes every ban of that user, keeps the bans of the other users in
\* their order, and the user is not banned afterwards.
C13_UnbanRemovesOnlyThatBan ==
  [][(Step /\ lastOp'.op = "unban")
       => IF Banned(bans, lastOp'.user_id)
          THEN /\ resp'.ok
               /\ bans' = SelectSeq(bans, LAMBDA x : x.user_id # lastOp'.user_id)
               /\ \A x \in SeqToSet(bans) :
                    x.user_id # lastOp'.user_id => x \in SeqToSet(bans')
               /\ ~Banned(bans', lastOp'.user_id)
               /\ ~(\E i \in 1..Len(bans') : bans'[i].user_id = lastOp'.user_id)
          ELSE /\ resp'.status = 404
               /\ resp'.error = "not found"
               /\ bans' = bans
               /\ logs' = logs]_vars

\* user 1 was unbanned while the ban of user 3 stayed
C13_Witness ==
  /\ lastOp.op = "unban"
  /\ lastOp.user_id = 1
  /\ resp.ok
  /\ bans = SeedBans
  /\ logs[Len(logs)].kind = "user_unbanned"

\* the operations that change an aggregate
MutatingOps ==
  {"category_create", "category_patch", "category_delete", "product_create",
   "cart_add", "cart_clear", "checkout", "ban", "unban", "mode"}

\* who and what an entry is about, whatever its payload
Heads(l) == [i \in 1..Len(l) |-> [kind |-> l[i].kind, user_id |-> l[i].user_id]]

\* l2 is l1 with one entry appended, the oldest evicted when over the limit
OneAppended(l1, l2) ==
  /\ l2 # <<>>
  /\ \/ Heads(SubSeq(l2, 1, Len(l2) - 1)) = Heads(l1)
     \/ /\ Len(l1) >= LOG_LIMIT
        /\ Heads(SubSeq(l2, 1, Len(l2) - 1)) = Heads(Tail(l1))

\* C14: every successful mutating operation appends one entry to the log,
\* and no step removes an entry except the eviction of the oldest one by an
\* append at the limit.
C14_EveryMutationLogged ==
  [][Step =>
       /\ (lastOp'.op \in MutatingOps /\ resp'.ok) => OneAppended(logs, logs')
       /\ Heads(logs') = Heads(logs) \/ OneAppended(logs, logs')]_vars

\* C19: a request that is answered with an error (status 400, 403 or 404
\* and an error code) leaves categories, products, carts, bans, settings and
\* the log as they were.
C19_ErrorsChangeNoAggregate ==
  [][(Step /\ ~resp'.ok)
       => /\ resp'.status \in {400, 403, 404}
          /\ UNCHANGED <<categories, products, carts, bans, settings, logs>>]_vars

\* a refused import: the documents are gone, the aggregates are not
C19_Witness ==
  /\ lastOp.op = "import"
  /\ resp.status = 400
  /\ resp.error = "extract_failed"
  /\ DocPath("categories.json") \notin DOMAIN files
  /\ categories = SeedCategories
  /\ carts # <<>>

\* C20: a successful checkout appends exactly one entry, of kind checkout
\* and of that user, whatever the mode and the delivery; its payload holds
\* every line of the cart as stored just before the request, stale lines
\* included, and still holds them in the state in which the cart is empty.
C20_CheckoutLogsRawCart ==
  [][(Step /\ lastOp'.op = "checkout" /\ resp'.ok)
       => LET n == Len(logs')
              before == SubSeq(logs', 1, n - 1)
          IN  /\ n >= 1
              /\ before = logs \/ (Len(logs) >= LOG_LIMIT /\ before = Tail(logs))
              /\ logs'[n].kind = "checkout"
              /\ logs'[n].user_id = lastOp'.user_id
              /\ logs'[n].payload.items = CartOf(carts, lastOp'.user_id)
              /\ logs'[n].payload.items # <<>>
              /\ carts'[lastOp'.user_id] = <<>>
              /\ files'[DocPath("logs.json")].json[n].payload.items
                   = DumpCart(CartOf(carts, lastOp'.user_id))]_vars

\* a checkout of the cart with a line of product 1 and a stale line of
\* product 7: the entry holds both, the cart is empty
C20_Witness ==
  /\ lastOp.op = "checkout"
  /\ resp.ok
  /\ carts[lastOp.user_id] = <<>>
  /\ logs[Len(logs)].kind = "checkout"
  /\ logs[Len(logs)].payload.items
       = << [product_id |-> 1, qty |-> 2], [product_id |-> 7, qty |-> 1] >>

\* C21: a successful checkout answers a link exactly when the mode is
\* samopis and a nick is configured, and the link is addressed to that nick;
\* in samopis mode nothing is sent to the admin chat; in any other mode a
\* delivery is attempted exactly when an admin chat is configured; and the
\* cart of the user is empty afterwards in every case.
C21_LinkOnlyInSelfListing ==
  [][(Step /\ lastOp'.op = "checkout" /\ resp'.ok)
       => /\ resp'.body.redirect # NoneStr
               <=> (settings.mode = "samopis" /\ env.nick # "")
          /\ resp'.body.redirect # NoneStr
               => resp'.body.redirect = "https://t.me/" \o env.nick
          /\ settings.mode = "samopis" => sent' = "none"
          /\ settings.mode # "samopis"
               => (sent' \in {"delivered", "failed"} <=> env.admin_chat_id # NoneId)
          /\ carts'[lastOp'.user_id] = <<>>]_vars

\* a checkout in samopis mode with no nick and with an admin chat: no link,
\* nothing sent, the cart empty
C21_Witness ==
  /\ lastOp.op = "checkout"
  /\ resp.ok
  /\ settings.mode = "samopis"
  /\ env.nick = ""
  /\ env.admin_chat_id # NoneId
  /\ resp.body.redirect = NoneStr
  /\ sent = "none"
  /\ carts[lastOp.user_id] = <<>>

\* C22: after every request each document holds what json.dumps writes for
\* its aggregate in memory, and a reload of the documents gives the
\* aggregates in memory.
C22_DocumentsMirrorMemory ==
  /\ DocsOf(files) =
       [n \in DocNames |->
          Json(CASE n = "categories.json" -> Serialized.categories
                 [] n = "products.json" -> Serialized.products
                 [] n = "carts.json" -> Serialized.carts
                 [] n = "logs.json" -> Serialized.logs
                 [] n = "bans.json" -> Serialized.bans
                 [] n = "settings.json" -> Serialized.settings)]
  /\ LET d == _load_all_data(files)
     IN  /\ d.categories = categories
         /\ d.products = products
         /\ d.carts = carts
         /\ DumpLogs(d.logs) = DumpLogs(logs)
         /\ d.bans = bans
         /\ d.settings = settings

\* what the claim fixes of an entry
SameEntry(a, b) ==
  /\ a.kind = b.kind
  /\ a.user_id = b.user_id
  /\ a.payload = b.payload

\* C24: a request other than an import leaves the kind, the user id and
\* the payload of every entry that stays in the log as they were (the
\* entries move by one place when the oldest is evicted).
C24_EntriesNeverChange ==
  [][(Step /\ lastOp'.op # "import")
       => \/ /\ Len(logs') >= Len(logs)
             /\ \A i \in 1..Len(logs) : SameEntry(logs'[i], logs[i])
          \/ /\ Len(logs) >= LOG_LIMIT
             /\ Len(logs') = Len(logs)
             /\ \A i \in 2..Len(logs) : SameEntry(logs'[i - 1], logs[i])]_vars

(***************************************************************************)
(* The scenario of section 8: a process started on an empty data root      *)
(* serves the requests of the scenario, in any order and any number of    *)
(* times, and trace keeps every request with its response                  *)
(***************************************************************************)
\* number of requests served in a scenario run
MaxScenarioOps == 5

ScenarioUsers == {42}

ScenarioBody == [title |-> "X", price |-> 10, category_id |-> 1, image_url |-> ""]

ScenarioInit ==
  /\ Init
  /\ categories = <<>>
  /\ products = <<>>
  /\ DOMAIN carts = {}
  /\ logs = <<>>
  /\ bans = <<>>

Recorded == trace' = Append(trace, [op |-> lastOp', resp |-> resp'])

ScenarioCategory ==
  /\ nops < MaxScenarioOps
  /\ api_categories("Shoes", "")
  /\ Recorded
  /\ UNCHANGED threads

ScenarioProduct ==
  /\ nops < MaxScenarioOps
  /\ \E fetch \in FetchOutcomes : api_products(ScenarioBody, fetch)
  /\ Recorded
  /\ UNCHANGED threads

ScenarioAdd ==
  /\ nops < MaxScenarioOps
  /\ \E u \in ScenarioUsers : api_cart_add(u, 1, 2)
  /\ Recorded
  /\ UNCHANGED threads

ScenarioGet ==
  /\ nops < MaxScenarioOps
  /\ \E u \in ScenarioUsers : api_cart_get(u)
  /\ Recorded
  /\ UNCHANGED threads

ScenarioCheckout ==
  /\ nops < MaxScenarioOps
  /\ \E u \in ScenarioUsers, delivery \in Deliveries : api_cart_checkout(u, delivery)
  /\ Recorded
  /\ UNCHANGED threads

ScenarioNext ==
  \/ ScenarioCategory
  \/ ScenarioProduct
  \/ ScenarioAdd
  \/ ScenarioGet
  \/ ScenarioCheckout

ScenarioSpec == ScenarioInit /\ [][ScenarioNext]_vars

(***************************************************************************)
(* Catalog runs: the catalog requests alone, one at a time, on either data *)
(* root                                                                    *)
(***************************************************************************)
\* number of requests served in a catalog run
MaxCatalogOps == 4

CatalogIds == {1, 2, 3}

CatalogCreate ==
  /\ nops < MaxCatalogOps
  /\ api_categories("Hats", "")
  /\ UNCHANGED <<trace, threads>>

CatalogPatch ==
  /\ nops < MaxCatalogOps
  /\ \E cat_id \in CatalogIds : api_category_patch(cat_id, "Boots", "")
  /\ UNCHANGED <<trace, threads>>

CatalogDelete ==
  /\ nops < MaxCatalogOps
  /\ \E cat_id \in CatalogIds : api_category_delete(cat_id)
  /\ UNCHANGED <<trace, threads>>

CatalogProduct ==
  /\ nops < MaxCatalogOps
  /\ \E body \in ProductBodies : api_products(body, "fail")
  /\ UNCHANGED <<trace, threads>>

CatalogNext ==
  \/ CatalogCreate
  \/ CatalogPatch
  \/ CatalogDelete
  \/ CatalogProduct

CatalogSpec == Init /\ [][CatalogNext]_vars

\* the ids in a collection
IdsOf(items) == {items[i].id : i \in 1..Len(items)}

\* 1 + max(ids), 1 for an empty collection
NextIdRule(items) ==
  IF items = <<>> THEN 1
  ELSE 1 + (CHOOSE m \in IdsOf(items) : \A k \in IdsOf(items) : k <= m)

\* every successful create gives the new item the id of the rule and appends it
CreateFollowsRule ==
  /\ (Step /\ lastOp'.op = "category_create" /\ resp'.ok)
       => /\ resp'.body.id = NextIdRule(categories)
          /\ categories' = Append(categories, resp'.body)
  /\ (Step /\ lastOp'.op = "product_create" /\ resp'.ok)
       => /\ resp'.body.id = NextIdRule(products)
          /\ products' = Append(products, resp'.body)

\* a category was created right after the category lastOp.cat_id was deleted
CreateAfterDelete ==
  /\ Step
  /\ lastOp.op = "category_delete"
  /\ resp.ok
  /\ lastOp'.op = "category_create"
  /\ resp'.ok

\* the deleted category had the highest id of the collection
DeletedHighest == \A k \in IdsOf(categories) : k < lastOp.cat_id

\* C18 as amended: every create assigns 1 + max(ids), or 1; a create right
\* after the delete of the category with the highest id gives an id that is
\* not above the freed one, and that is the freed one exactly when the next
\* lower id is still in use (or the freed id was 1 and nothing is left);
\* after the delete of another category the freed id is not given.
C18_NextIdIsMaxPlusOne ==
  [][/\ CreateFollowsRule
     /\ CreateAfterDelete =>
          IF DeletedHighest
          THEN /\ resp'.body.id <= lastOp.cat_id
               /\ resp'.body.id = lastOp.cat_id
                    <=> (lastOp.cat_id - 1 \in IdsOf(categories) \cup {0})
          ELSE resp'.body.id # lastOp.cat_id]_vars

\* C18 as claimed: a create right after the delete of the category with the
\* highest id gives the freed id
C18_HighestIdIsReused ==
  [][/\ CreateFollowsRule
     /\ CreateAfterDelete =>
          IF DeletedHighest
          THEN resp'.body.id = lastOp.cat_id
          ELSE resp'.body.id # lastOp.cat_id]_vars

\* category 2, the highest, was deleted and the next create got the id 2
C18_Witness ==
  /\ lastOp.op = "category_create"
  /\ resp.ok
  /\ resp.body.id = 2
  /\ IdsOf(categories) = {1, 2}
  /\ logs[Len(logs) - 1].kind = "category_deleted"
  /\ logs[Len(logs) - 1].payload.id = 2

(***************************************************************************)
(* Parallel requests.  app.run serves every request in a thread of its own *)
(* and no handler takes a lock, so the handlers interleave at their reads  *)
(* and writes of the shared aggregates.  Each thread serves one request in *)
(* the steps below; a step is a piece of a handler that the model runs     *)
(* without interruption (the real pieces are smaller, so every run of the  *)
(* model is a run of the program).  An import reassigns every aggregate,   *)
(* so the model runs it next to reads only.                                *)
(***************************************************************************)
Done(kind, answer) == [pc |-> "done", kind |-> kind, resp |-> answer]

KindOfThread(t) == IF threads[t].pc = "idle" THEN "none" ELSE threads[t].kind

NoImport == \A t \in Threads : KindOfThread(t) # "import"

OnlyReads == \A t \in Threads : KindOfThread(t) \in {"none", "read"}

ThreadVarsKept == UNCHANGED <<env, download, lastOp, resp, sent, extracted, nops, trace>>

\* api_cart_add up to the read of the old quantity in line 460
cart_add_read(t, user_id, product_id, raw) ==
  /\ threads[t].pc = "idle"
  /\ NoImport
  /\ ThreadVarsKept
  /\ UNCHANGED <<categories, products, logs, bans, settings, files, dirs>>
  /\ IF _is_banned(user_id)
     THEN /\ threads' = [threads EXCEPT ![t] =
                           Done("add", [status |-> 403, ok |-> FALSE, error |-> "banned"])]
          /\ UNCHANGED <<carts, asked>>
     ELSE IF _get_product(product_id) = 0
     THEN /\ threads' = [threads EXCEPT ![t] =
                           Done("add", [status |-> 404, ok |-> FALSE,
                                        error |-> "product not found"])]
          /\ UNCHANGED <<carts, asked>>
     ELSE /\ carts' = SetCart(carts, user_id, CartOf(carts, user_id))
          /\ asked' = SetCart(asked, user_id, CartOf(asked, user_id))
          /\ threads' = [threads EXCEPT ![t] =
                           [pc |-> "add_write", kind |-> "add", user_id |-> user_id,
                            product_id |-> product_id, raw |-> raw,
                            seen |-> QtyIn(CartOf(carts, user_id), product_id)]]

\* the assignment of line 460 and the rest of api_cart_add
cart_add_write(t) ==
  LET th == threads[t]
      qty == ParsedQty(th.raw)
  IN  /\ th.pc = "add_write"
      /\ carts' = SetCart(carts, th.user_id,
                          SetLine(CartOf(carts, th.user_id), th.product_id,
                                  th.seen + ClampedQty(qty)))
      /\ logs' = _log_event(logs, "cart_add", th.user_id,
                            [product_id |-> th.product_id, qty |-> qty], "own")
      /\ files' = SaveCarts(SaveLogs(files, logs'), carts')
      /\ asked' = AskedAfterAdd(asked, th.user_id, th.product_id, th.raw)
      /\ threads' = [threads EXCEPT ![t] = Done("add", [status |-> 200, ok |-> TRUE])]
      /\ ThreadVarsKept
      /\ UNCHANGED <<categories, products, bans, settings, dirs>>

\* api_categories up to line 363: the new dict, with its id
category_new(t, name) ==
  /\ threads[t].pc = "idle"
  /\ NoImport
  /\ threads' = [threads EXCEPT ![t] =
                   [pc |-> "category_append", kind |-> "category_create",
                    new_cat |-> [id |-> _next_id(categories), name |-> name,
                                 icon |-> NoneStr]]]
  /\ ThreadVarsKept
  /\ UNCHANGED <<mem, files, dirs, asked>>

\* lines 364 to 367
category_append(t) ==
  /\ threads[t].pc = "category_append"
  /\ categories' = Append(categories, threads[t].new_cat)
  /\ logs' = _log_event(logs, "category_created", NoneId, threads[t].new_cat, "categories")
  /\ files' = _save_json(SaveLogs(files, logs'), "categories.json", categories')
  /\ threads' = [threads EXCEPT ![t] =
                   Done("category_create",
                        [status |-> 201, ok |-> TRUE, body |-> threads[t].new_cat])]
  /\ ThreadVarsKept
  /\ UNCHANGED <<products, carts, bans, settings, dirs, asked>>

\* api_products up to the call of _download_and_resize in line 429: the id
\* is taken in line 421
product_new(t, body) ==
  /\ threads[t].pc = "idle"
  /\ NoImport
  /\ threads' = [threads EXCEPT ![t] =
                   [pc |-> "product_fetch", kind |-> "product_create", body |-> body,
                    id |-> _next_id(products)]]
  /\ ThreadVarsKept
  /\ UNCHANGED <<mem, files, dirs, asked>>

\* the fetch of the image returns; lines 430 to 439
product_append(t, fetch) ==
  LET th == threads[t]
      paths == _download_and_resize(th.body.image_url, th.id, fetch)
      main_url == IF paths.main # Url(NoneStr) THEN paths.main ELSE Url(th.body.image_url)
      thumb_url == IF paths.thumb # Url(NoneStr) THEN paths.thumb ELSE main_url
      new_product == [id |-> th.id, title |-> th.body.title, price |-> th.body.price,
                      category_id |-> th.body.category_id,
                      image_url |-> main_url, thumb_url |-> thumb_url]
  IN  /\ th.pc = "product_fetch"
      /\ products' = Append(products, new_product)
      /\ logs' = _log_event(logs, "product_created", NoneId, new_product, "products")
      /\ files' = _save_json(SaveLogs(FilesAfterFetch(files, th.id, paths), logs'),
                             "products.json", products')
      /\ threads' = [threads EXCEPT ![t] =
                       Done("product_create",
                            [status |-> 201, ok |-> TRUE, body |-> new_product])]
      /\ ThreadVarsKept
      /\ UNCHANGED <<categories, carts, bans, settings, dirs, asked>>

\* what a read shows of the store
Snapshot == [categories |-> categories, products |-> products, carts |-> carts]

\* an archive with another catalog and another cart for user 1
NewCatalogArchive ==
  [label |-> "newcatalog", zip |-> TRUE,
   entries |->
     << [name |-> Rel(<<"categories.json">>),
         data |-> Json(<< [id |-> 5, name |-> "Toys", icon |-> NoneStr] >>)],
        [name |-> Rel(<<"products.json">>),
         data |-> Json(<< [id |-> 7, title |-> "T", price |-> 5, category_id |-> 5,
                           image_url |-> Url(PLACEHOLDER),
                           thumb_url |-> Url(PLACEHOLDER)] >>)],
        [name |-> Rel(<<"carts.json">>),
         data |-> Json([k \in {"1"} |-> << [key |-> "7", qty |-> 4] >>])] >>]

\* api_admin_data_upload up to line 685: the data root is replaced
upload_extract(t, file) ==
  LET x == IF file.zip
           THEN _safe_extract(file.entries, WipedFiles(files), WipedDirs(dirs), <<>>)
           ELSE ExtractFailed(WipedFiles(files), WipedDirs(dirs), <<>>, "not a zip file")
      d == _load_all_data(x.files)
  IN  /\ threads[t].pc = "idle"
      /\ OnlyReads
      /\ files' = x.files
      /\ ThreadVarsKept
      /\ UNCHANGED <<mem, asked>>
      /\ IF ~x.ok
         THEN /\ dirs' = x.dirs
              /\ threads' = [threads EXCEPT ![t] =
                               Done("import", [status |-> 400, ok |-> FALSE,
                                               error |-> "extract_failed"])]
         ELSE /\ dirs' = x.dirs \cup {IMAGES_DIR, THUMBS_DIR}
              /\ threads' = [threads EXCEPT ![t] =
                               [pc |-> "load", kind |-> "import", step |-> 1,
                                before |-> Snapshot,
                                after |-> [categories |-> d.categories,
                                           products |-> d.products,
                                           carts |-> d.carts]]]

\* the assignments of _load_all_data, in their order
LoadOrder ==
  <<"categories.json", "products.json", "carts.json", "logs.json", "bans.json",
    "settings.json">>

\* one assignment of _load_all_data
load_one(t) ==
  LET k == threads[t].step
      name == LoadOrder[k]
      r == _load_json(files, name,
                      IF name = "settings.json" THEN DefaultSettings ELSE <<>>)
  IN  /\ threads[t].pc = "load"
      /\ files' = r.files
      /\ categories' = IF name = "categories.json" THEN r.val ELSE categories
      /\ products' = IF name = "products.json" THEN r.val ELSE products
      /\ carts' = IF name = "carts.json" THEN _normalize_carts(r.val) ELSE carts
      /\ asked' = IF name = "carts.json" THEN AskedFrom(carts') ELSE asked
      /\ logs' = IF name = "logs.json" THEN LoadLogs(r.val) ELSE logs
      /\ bans' = IF name = "bans.json" THEN r.val ELSE bans
      /\ settings' = IF name = "settings.json" THEN r.val ELSE settings
      /\ threads' = [threads EXCEPT ![t] =
                       IF k = Len(LoadOrder)
                       THEN Done("import", [status |-> 200, ok |-> TRUE])
                       ELSE [@ EXCEPT !.step = k + 1]]
      /\ ThreadVarsKept
      /\ UNCHANGED dirs

\* the threads that are reloading the aggregates
Loading == {i \in Threads : threads[i].pc = "load"}

\* api_cart_get, run in one piece: its answer, what it saw of the store, and
\* the states of the store before and after the import it ran next to
cart_read(t, user_id) ==
  LET items == CartItems(CartOf(carts, user_id))
      imp == threads[CHOOSE i \in Loading : TRUE]
  IN  /\ threads[t].pc = "idle"
      /\ threads' = [threads EXCEPT ![t] =
                       [pc |-> "done", kind |-> "read",
                        resp |-> [status |-> 200, ok |-> TRUE,
                                  body |-> [items |-> items, total |-> CartTotal(items)]],
                        seen |-> Snapshot,
                        states |-> IF Loading = {} THEN {Snapshot}
                                   ELSE {imp.before, imp.after}]]
      /\ ThreadVarsKept
      /\ UNCHANGED <<mem, files, dirs, asked>>

ParallelQtyArgs == {0, 2}

AddRead ==
  \E t \in Threads, u \in Users, q \in ParallelQtyArgs : cart_add_read(t, u, 1, q)

AddWrite == \E t \in Threads : cart_add_write(t)

CategoryNew == \E t \in Threads : category_new(t, "Hats")

CategoryAppend == \E t \in Threads : category_append(t)

ProductNew ==
  \E t \in Threads, body \in {b \in ProductBodies : "price" \in DOMAIN b} :
    product_new(t, body)

ProductAppend == \E t \in Threads, fetch \in FetchOutcomes : product_append(t, fetch)

UploadExtract ==
  \E t \in Threads, file \in {NotAZip, NewCatalogArchive} : upload_extract(t, file)

LoadOne == \E t \in Threads : load_one(t)

CartRead == \E t \in Threads : cart_read(t, 1)

ParallelNext ==
  \/ AddRead
  \/ AddWrite
  \/ CategoryNew
  \/ CategoryAppend
  \/ ProductNew
  \/ ProductAppend
  \/ UploadExtract
  \/ LoadOne
  \/ CartRead

ParallelSpec == Init /\ [][ParallelNext]_vars

\* the add requests that are between their read and their write
AddsInFlight == {t \in Threads : threads[t].pc = "add_write"}

\* C15: when no add is in flight, every cart line holds the quantity it
\* started from plus the sum of max(1, qty) over the add requests accepted
\* for it, in whatever order their reads and writes ran.
C15_NoAddIsLost ==
  AddsInFlight = {} =>
    \A u \in DOMAIN asked :
      \A i \in 1..Len(asked[u]) :
        QtyIn(CartOf(carts, u), asked[u][i].product_id)
          = asked[u][i].base + asked[u][i].sum

NoSharedId(items) ==
  \A i, j \in 1..Len(items) : items[i].id = items[j].id => i = j

\* C16: no two categories share an id and no two products share an id,
\* however the create requests interleave.
C16_CreatesNeverShareAnId == NoSharedId(categories) /\ NoSharedId(products)

\* C17: what a read that ran next to an import saw of categories, products
\* and carts is the state before the import or the state after it.
C17_ReadSeesOneState ==
  \A t \in Threads :
    (threads[t].pc = "done" /\ threads[t].kind = "read")
      => threads[t].seen \in threads[t].states

\* the requests of the scenario, with a get between add and checkout
ScenarioOps ==
  <<"category_create", "product_create", "cart_add", "cart_get", "checkout">>

OpsOf(tr) == [i \in 1..Len(tr) |-> tr[i].op.op]

\* the kind of the audit entry that a request of the scenario must leave
KindOf(op) ==
  CASE op = "category_create" -> "category_created"
    [] op = "product_create" -> "product_created"
    [] op = "cart_add" -> "cart_add"
    [] op = "checkout" -> "checkout"

\* the kinds due for the requests of a trace that succeeded, in the order
\* in which they completed
KindsDue(tr) ==
  LET logged == SelectSeq(tr, LAMBDA r : r.resp.ok /\ r.op.op # "cart_get")
  IN  [i \in 1..Len(logged) |-> KindOf(logged[i].op.op)]

KindsIn(l) == [i \in 1..Len(l) |-> l[i].kind]

PositiveIds(items) == \A i \in 1..Len(items) : items[i].id \in Nat \ {0}

\* C23: in every state of a run of catalog requests served one at a time,
\* the ids of the categories are positive and pairwise distinct, and so are
\* the ids of the products.
C23_CatalogIdsDistinct ==
  /\ PositiveIds(categories)
  /\ PositiveIds(products)
  /\ \A i \in 1..Len(categories) : \A j \in 1..(i - 1) :
       categories[i].id # categories[j].id
  /\ \A i \in 1..Len(products) : \A j \in 1..(i - 1) :
       products[i].id # products[j].id

\* a run from the empty store: two creates, the delete of category 1 and one
\* more create left the categories 2 and 3
C23_Witness ==
  /\ Len(logs) = 4
  /\ KindsIn(logs) = <<"category_created", "category_created", "category_deleted",
                       "category_created">>
  /\ logs[3].payload.id = 1
  /\ IdsOf(categories) = {2, 3}
  /\ Len(categories) = 2

\* C11: from an empty store, create category, create product (price 10, that
\* category), add(42, product 1, qty 2), get(42), checkout(42) answer category
\* id 1, product id 1, total 20 and a successful checkout, leave the cart of
\* 42 empty and the log category_created, product_created, cart_add,
\* checkout; and after any run the kinds in the log are those of the
\* successful requests in the order in which they completed.
C11_ScenarioAndLogOrder ==
  /\ KindsIn(logs) = KindsDue(trace)
  /\ OpsOf(trace) = ScenarioOps =>
       /\ trace[1].resp.status = 201
       /\ trace[1].resp.body.id = 1
       /\ trace[2].resp.status = 201
       /\ trace[2].resp.body.id = 1
       /\ trace[2].resp.body.category_id = trace[1].resp.body.id
       /\ trace[3].resp.ok
       /\ trace[4].resp.body.total = 20
       /\ trace[5].resp.status = 200
       /\ trace[5].resp.ok
       /\ \A u \in ScenarioUsers : u \in DOMAIN carts /\ carts[u] = <<>>
       /\ KindsIn(logs) = <<"category_created", "product_created", "cart_add", "checkout">>

\* the scenario was run to its end
C11_Witness ==
  /\ OpsOf(trace) = ScenarioOps
  /\ trace[4].resp.body.total = 20
  /\ trace[5].resp.ok
  /\ Len(logs) = 4
  /\ logs[4].kind = "checkout"
====
